---------------------------- MODULE Spec2Model ----------------------------
(***************************************************************************)
(* A model of the String Analyzer service (src/main.py): the analysis      *)
(* function, the filter matcher, the natural-language query interpreter,   *)
(* and the HTTP handlers over the SQLite table `strings`.                   *)
(*                                                                         *)
(* Python strings are TLA+ strings; a character is a string of length 1.   *)
(* Python dicts are functions whose domain is the set of keys.             *)
(***************************************************************************)
EXTENDS Integers, Sequences, FiniteSets, TLC

VARIABLES
    store,      \* the rows of table `strings`, as committed
    clock,      \* the wall clock datetime.now() reads
    req,        \* the HTTP request last served
    resp,       \* its response
    endpoint,   \* the handler the router called for it
    issued,     \* per value: the body of the 201 its create was answered with,
                \* for the values created and not deleted since
    parsed,     \* what the last direct call of parse_nl_query returned
    s,          \* the argument of the last direct call of analyze_string
    props,      \* what that call returned
    pc,         \* per worker thread: its place in create_string
    conn,       \* per worker thread: the row its open transaction has inserted
    outcome     \* per worker thread: how its create_string ended

vars == <<store, clock, req, resp, endpoint, issued, parsed, s, props,
          pc, conn, outcome>>

svcVars  == <<store, clock, req, resp, endpoint, issued>>
pureVars == <<s, props>>
raceVars == <<pc, conn, outcome>>

-----------------------------------------------------------------------------
(* Bounds of the model *)

\* longest argument analyze_string is called with directly
MaxLen == 3
\* the clock stops here: at most this many creates in one behaviour
MaxClock == 2
\* most phrases in one natural-language query
MaxPhrases == 2

-----------------------------------------------------------------------------
(* Characters and the str methods the source calls *)

Char(str, i) == SubSeq(str, i, i)

Chars(str) == {Char(str, i) : i \in 1..Len(str)}

UpperLetters == "ABCDEFGHIJKLMNOPQRSTUVWXYZ"
LowerLetters == "abcdefghijklmnopqrstuvwxyz"
Digits == "0123456789"

\* str.isspace(), which is also what \s matches in a str pattern
Whitespace == {" ", "\t", "\n", "\r"}

UpperSet == Chars(UpperLetters)
LowerSet == Chars(LowerLetters)
DigitSet == Chars(Digits)

\* characters with a case (Unicode property Cased), among those the model uses
Cased == UpperSet \cup LowerSet \cup {"Σ", "σ", "ς"}

\* Unicode property Case_Ignorable, among the characters the model uses
CaseIgnorable == {"'", ".", ":"}

IndexIn(c, str) == CHOOSE i \in 1..Len(str) : Char(str, i) = c

LowerOfUpper == [c \in UpperSet |-> Char(LowerLetters, IndexIn(c, UpperLetters))]
UpperOfLower == [c \in LowerSet |-> Char(UpperLetters, IndexIn(c, LowerLetters))]

\* the context-free lower-case mapping of one character
LowerChar(c) ==
    IF c \in UpperSet THEN LowerOfUpper[c]
    ELSE IF c = "Σ" THEN "σ"
    ELSE c

\* the upper-case mapping of one character
UpperChar(c) ==
    IF c \in LowerSet THEN UpperOfLower[c]
    ELSE IF c \in {"σ", "ς"} THEN "Σ"
    ELSE c

\* str.lower() maps a capital sigma to the final form (ς) when a cased
\* character precedes it and none follows it, case-ignorable characters skipped
\* (Unicode SpecialCasing, condition Final_Sigma)
FinalSigma(str, i) ==
    /\ \E j \in 1..(i - 1) :
          /\ Char(str, j) \in Cased
          /\ \A k \in (j + 1)..(i - 1) : Char(str, k) \in CaseIgnorable
    /\ ~ \E j \in (i + 1)..Len(str) :
          /\ Char(str, j) \in Cased
          /\ \A k \in (i + 1)..(j - 1) : Char(str, k) \in CaseIgnorable

RECURSIVE LowerFrom(_, _)
LowerFrom(str, i) ==
    IF i > Len(str) THEN ""
    ELSE (IF Char(str, i) = "Σ" /\ FinalSigma(str, i) THEN "ς"
          ELSE LowerChar(Char(str, i))) \o LowerFrom(str, i + 1)

\* str.lower()
Lower(str) == LowerFrom(str, 1)

\* str.upper(), for one character, as match_filters uses it
Upper(c) == UpperChar(c)

RECURSIVE Reverse(_)
\* str[::-1]
Reverse(str) == IF str = "" THEN "" ELSE Reverse(Tail(str)) \o Char(str, 1)

RECURSIVE RemoveWhitespace(_)
\* re.sub(r"\s+", "", str)
RemoveWhitespace(str) ==
    IF str = "" THEN ""
    ELSE IF Char(str, 1) \in Whitespace THEN RemoveWhitespace(Tail(str))
    ELSE Char(str, 1) \o RemoveWhitespace(Tail(str))

RECURSIVE LStrip(_)
LStrip(str) ==
    IF str # "" /\ Char(str, 1) \in Whitespace THEN LStrip(Tail(str)) ELSE str

RECURSIVE RStrip(_)
RStrip(str) ==
    IF str # "" /\ Char(str, Len(str)) \in Whitespace
    THEN RStrip(SubSeq(str, 1, Len(str) - 1)) ELSE str

\* str.strip()
Strip(str) == LStrip(RStrip(str))

\* len(str.split()): the number of maximal runs of non-whitespace characters
SplitCount(str) ==
    Cardinality({i \in 1..Len(str) :
        /\ Char(str, i) \notin Whitespace
        /\ (i = 1 \/ Char(str, i - 1) \in Whitespace)})

-----------------------------------------------------------------------------
(* Analysis helpers *)

\* str.encode("utf-8") of one character, for the characters the model uses
Utf8Char(c) ==
    CASE c = "Σ" -> <<206, 163>>
      [] c = "σ" -> <<207, 131>>
      [] c = "ς" -> <<207, 130>>
      [] c = "\t" -> <<9>>
      [] c = "\n" -> <<10>>
      [] c = "\r" -> <<13>>
      [] c = " " -> <<32>>
      [] c = "-" -> <<45>>
      [] c \in UpperSet -> <<64 + IndexIn(c, UpperLetters)>>
      [] c \in LowerSet -> <<96 + IndexIn(c, LowerLetters)>>

RECURSIVE Utf8(_)
Utf8(str) == IF str = "" THEN << >> ELSE Utf8Char(Char(str, 1)) \o Utf8(Tail(str))

\* SHA-256 is taken to be free of collisions: a digest is represented by the
\* bytes it was computed from, so that two digests are equal exactly when the
\* byte strings are
sha256_hash(value) == [sha256 |-> Utf8(value)]

normalize_for_palindrome(str) == Lower(RemoveWhitespace(str))

\* norm == norm[::-1]
IsOwnReverse(norm) == norm = Reverse(norm)

is_palindrome_value(str) == IsOwnReverse(normalize_for_palindrome(str))

character_frequency_map(str) ==
    [ch \in Chars(str) |-> Cardinality({i \in 1..Len(str) : Char(str, i) = ch})]

\* a variant that trims the value before it hashes it
analyze_string_trimmed(value) ==
    [ length                  |-> Len(value),
      is_palindrome           |-> is_palindrome_value(value),
      unique_characters       |-> Cardinality(Chars(value)),
      word_count              |-> IF Strip(value) = "" THEN 0 ELSE SplitCount(value),
      sha256_hash             |-> sha256_hash(Strip(value)),
      character_frequency_map |-> character_frequency_map(value) ]

analyze_string(value) ==
    [ length                  |-> Len(value),
      is_palindrome           |-> is_palindrome_value(value),
      unique_characters       |-> Cardinality(Chars(value)),
      word_count              |-> IF Strip(value) = "" THEN 0 ELSE SplitCount(value),
      sha256_hash             |-> sha256_hash(value),
      character_frequency_map |-> character_frequency_map(value) ]


-----------------------------------------------------------------------------
(* Numerals, and the JSON text the table holds *)

RECURSIVE Decimal(_)
\* str(n) for n >= 0
Decimal(n) ==
    IF n < 10 THEN Char(Digits, n + 1)
    ELSE Decimal(n \div 10) \o Char(Digits, (n % 10) + 1)

DigitValue == [c \in DigitSet |-> IndexIn(c, Digits) - 1]

DigitVal(c) == DigitValue[c]

RECURSIVE ParseInt(_)
\* int(str) for a string of digits
ParseInt(str) ==
    IF Len(str) = 1 THEN DigitVal(str)
    ELSE 10 * ParseInt(SubSeq(str, 1, Len(str) - 1)) + DigitVal(Char(str, Len(str)))

\* json.dumps writes a character outside ASCII, or a control character, as an
\* escape (ensure_ascii is on by default)
JsonEscapeChar(c) ==
    CASE c = "Σ"  -> "\\u03a3"
      [] c = "σ"  -> "\\u03c3"
      [] c = "ς"  -> "\\u03c2"
      [] c = "\t" -> "\\t"
      [] c = "\n" -> "\\n"
      [] c = "\r" -> "\\r"
      [] OTHER    -> c

RECURSIVE JsonEscape(_)
JsonEscape(str) ==
    IF str = "" THEN "" ELSE JsonEscapeChar(Char(str, 1)) \o JsonEscape(Tail(str))

RECURSIVE JsonUnescape(_)
JsonUnescape(txt) ==
    IF txt = "" THEN ""
    ELSE IF Char(txt, 1) # "\\" THEN Char(txt, 1) \o JsonUnescape(Tail(txt))
    ELSE IF Char(txt, 2) = "u"
         THEN (CASE SubSeq(txt, 3, 6) = "03a3" -> "Σ"
                 [] SubSeq(txt, 3, 6) = "03c3" -> "σ"
                 [] SubSeq(txt, 3, 6) = "03c2" -> "ς")
              \o JsonUnescape(SubSeq(txt, 7, Len(txt)))
         ELSE (CASE Char(txt, 2) = "t" -> "\t"
                 [] Char(txt, 2) = "n" -> "\n"
                 [] Char(txt, 2) = "r" -> "\r")
              \o JsonUnescape(SubSeq(txt, 3, Len(txt)))

RECURSIVE SeqOfSet(_)
SeqFrom(S, x) == <<x>> \o SeqOfSet(S \ {x})

\* the members of a finite set of strings, one after the other
SeqOfSet(S) == IF S = {} THEN << >> ELSE SeqFrom(S, CHOOSE y \in S : TRUE)

\* A JSON object is modelled by the sequence of its members <<key, value>>, a
\* number by its numeral, a boolean by its literal, a string by its escaped text.

JsonBool(b) == IF b THEN "true" ELSE "false"

JsonMembers(m, keys) ==
    [i \in 1..Len(keys) |-> <<JsonEscape(keys[i]), Decimal(m[keys[i]])>>]

\* json.dumps of the character_frequency_map
JsonDumpsMap(m) == JsonMembers(m, SeqOfSet(DOMAIN m))

\* json.dumps(props)
json_dumps(p) ==
    << <<"length", Decimal(p.length)>>,
       <<"is_palindrome", JsonBool(p.is_palindrome)>>,
       <<"unique_characters", Decimal(p.unique_characters)>>,
       <<"word_count", Decimal(p.word_count)>>,
       <<"sha256_hash", p.sha256_hash>>,
       <<"character_frequency_map", JsonDumpsMap(p.character_frequency_map)>> >>

\* the value of member `key` of a JSON object (the last one, were it repeated)
JsonMember(obj, key) ==
    obj[CHOOSE i \in 1..Len(obj) :
            /\ obj[i][1] = key
            /\ \A j \in (i + 1)..Len(obj) : obj[j][1] # key][2]

JsonLoadsMap(obj) ==
    [ch \in {JsonUnescape(obj[i][1]) : i \in 1..Len(obj)} |->
        ParseInt(JsonMember(obj, JsonEscape(ch)))]

\* json.loads(row["properties"])
json_loads(txt) ==
    [ length                  |-> ParseInt(JsonMember(txt, "length")),
      is_palindrome           |-> JsonMember(txt, "is_palindrome") = "true",
      unique_characters       |-> ParseInt(JsonMember(txt, "unique_characters")),
      word_count              |-> ParseInt(JsonMember(txt, "word_count")),
      sha256_hash             |-> JsonMember(txt, "sha256_hash"),
      character_frequency_map |-> JsonLoadsMap(JsonMember(txt, "character_frequency_map")) ]

-----------------------------------------------------------------------------
(* The table and the CRUD handlers.  A handler is an operator from the table *)
(* (and its arguments) to the response and the table it leaves.              *)

\* the rows a SELECT ... WHERE id = ? finds
RowsWithId(st, sid) == {row \in st : row.id = sid}

\* what a handler sends for a row
RecordOf(row) ==
    [ id         |-> row.id,
      value      |-> row.value,
      properties |-> json_loads(row.properties),
      created_at |-> row.created_at ]

HTTPException(code, text) == [status |-> code, detail |-> text]

\* a variant that stores the analysis of the trimmed value
NewRowTrimmed(value, p, created_at) ==
    [ id         |-> p.sha256_hash,
      value      |-> value,
      properties |-> json_dumps(analyze_string(Strip(value))),
      created_at |-> created_at ]

\* the row create_string inserts
NewRow(value, p, created_at) ==
    [ id         |-> p.sha256_hash,
      value      |-> value,
      properties |-> json_dumps(p),
      created_at |-> created_at ]

\* a variant without the existence check, its INSERT replacing the row
CreateOverwriting(st, now, value, p) ==
    [ resp  |-> [ status |-> 201,
                  body   |-> [ id         |-> p.sha256_hash,
                               value      |-> value,
                               properties |-> p,
                               created_at |-> now ] ],
      store |-> {row \in st : row.id # p.sha256_hash} \cup {NewRow(value, p, now)} ]

\* create_string from line 81 on, `p` being its local `props`
CreateAnalyzed(st, now, value, p) ==
    IF RowsWithId(st, p.sha256_hash) # {}
    THEN [ resp  |-> HTTPException(409, "String already exists"),
           store |-> st ]
    ELSE [ resp  |-> [ status |-> 201,
                       body   |-> [ id         |-> p.sha256_hash,
                                    value      |-> value,
                                    properties |-> p,
                                    created_at |-> now ] ],
           store |-> st \cup {NewRow(value, p, now)} ]

\* POST /strings
create_string(st, now, value) == CreateAnalyzed(st, now, value, analyze_string(value))

\* get_string after its SELECT, `rows` being what fetchone() draws from
GetFetched(st, rows) ==
    IF rows = {}
    THEN [ resp  |-> HTTPException(404, "String does not exist"),
           store |-> st ]
    ELSE [ resp  |-> [ status |-> 200,
                       body   |-> RecordOf(CHOOSE row \in rows : TRUE) ],
           store |-> st ]

\* GET /strings/{string_value}
get_string(st, string_value) == GetFetched(st, RowsWithId(st, sha256_hash(string_value)))

\* a variant that does not look at rowcount
DeleteUnchecked(st, sid) ==
    [ resp  |-> [status |-> 204],
      store |-> {row \in st : row.id # sid} ]

\* delete_string after its DELETE and commit
DeleteById(st, sid) ==
    [ resp  |-> IF Cardinality(RowsWithId(st, sid)) = 0
                THEN HTTPException(404, "String does not exist")
                ELSE [status |-> 204],
      store |-> {row \in st : row.id # sid} ]

\* DELETE /strings/{string_value}
delete_string(st, string_value) == DeleteById(st, sha256_hash(string_value))

-----------------------------------------------------------------------------
(* Filtering *)

Has(filters, key) == key \in DOMAIN filters

\* dict[key] = value, on a copy
Put(dict, key, value) ==
    [k \in DOMAIN dict \cup {key} |-> IF k = key THEN value ELSE dict[k]]

\* ch in freq or ch.lower() in freq or ch.upper() in freq
FoundIn(ch, freq) == ch \in freq \/ Lower(ch) \in freq \/ Upper(ch) \in freq

\* a variant that forgets max_length
match_filters_without_max(p, filters) ==
    /\ Has(filters, "is_palindrome") => p.is_palindrome = filters["is_palindrome"]
    /\ Has(filters, "min_length") => ~ (p.length < filters["min_length"])
    /\ Has(filters, "word_count") => p.word_count = filters["word_count"]
    /\ Has(filters, "contains_character") =>
          FoundIn(filters["contains_character"], DOMAIN p.character_frequency_map)

match_filters(p, filters) ==
    /\ Has(filters, "is_palindrome") => p.is_palindrome = filters["is_palindrome"]
    /\ Has(filters, "min_length") => ~ (p.length < filters["min_length"])
    /\ Has(filters, "max_length") => ~ (p.length > filters["max_length"])
    /\ Has(filters, "word_count") => p.word_count = filters["word_count"]
    /\ Has(filters, "contains_character") =>
          FoundIn(filters["contains_character"], DOMAIN p.character_frequency_map)

RECURSIVE RowsInOrder(_)
RowsFrom(st, first) == <<first>> \o RowsInOrder(st \ {first})

\* SELECT ... FROM strings: the rows in rowid order, which is the order of
\* insertion, hence of created_at
RowsInOrder(st) ==
    IF st = {} THEN << >>
    ELSE RowsFrom(st, CHOOSE row \in st : \A o \in st : row.created_at <= o.created_at)

\* the records of the fetched rows
Records(rows) == [i \in 1..Len(rows) |-> RecordOf(rows[i])]

\* the loop of list_strings and of filter_by_nl over the fetched rows
Matching(st, filters) ==
    SelectSeq(Records(RowsInOrder(st)), LAMBDA r : match_filters(r.properties, filters))

\* the filters list_strings builds from its query parameters, an absent
\* parameter (None) being a key `params` does not have
ListFilters(params) ==
    [k \in DOMAIN params \cap
           {"is_palindrome", "min_length", "max_length", "word_count",
            "contains_character"} |-> params[k]]

\* the validation list_strings starts with: the detail of the HTTPException
\* it raises, or "" when it raises none
ListInvalid(params) ==
    IF Has(params, "min_length") /\ params["min_length"] < 0
        THEN "min_length must be >= 0"
    ELSE IF Has(params, "max_length") /\ params["max_length"] < 0
        THEN "max_length must be >= 0"
    ELSE IF /\ Has(params, "min_length") /\ Has(params, "max_length")
            /\ params["min_length"] > params["max_length"]
        THEN "min_length cannot be greater than max_length"
    ELSE IF Has(params, "word_count") /\ params["word_count"] < 0
        THEN "word_count must be >= 0"
    ELSE IF Has(params, "contains_character") /\ Len(params["contains_character"]) # 1
        THEN "contains_character must be a single character"
    ELSE ""

\* what list_strings returns
ListBody(results, filters) ==
    [ data |-> results, count |-> Len(results), filters_applied |-> filters ]

\* list_strings after its validation
ListValidated(st, invalid, filters) ==
    IF invalid # ""
    THEN [ resp  |-> HTTPException(400, invalid),
           store |-> st ]
    ELSE [ resp  |-> [status |-> 200, body |-> ListBody(Matching(st, filters), filters)],
           store |-> st ]

\* GET /strings
list_strings(st, params) == ListValidated(st, ListInvalid(params), ListFilters(params))

-----------------------------------------------------------------------------
(* Natural-language filtering: what re.search finds *)

\* pattern `pat`, a plain text, matches at position i of q
StartsAt(q, i, pat) ==
    /\ i + Len(pat) - 1 <= Len(q)
    /\ SubSeq(q, i, i + Len(pat) - 1) = pat

\* pat in q
Contains(q, pat) == \E i \in 1..Len(q) : StartsAt(q, i, pat)

\* \w, among the characters the model uses
WordChars == UpperSet \cup LowerSet \cup DigitSet \cup {"_", "Σ", "σ", "ς"}

IsWordAt(q, i) == i \in 1..Len(q) /\ Char(q, i) \in WordChars

\* \b just before position i
Boundary(q, i) == IsWordAt(q, i - 1) # IsWordAt(q, i)

\* re.search(r"\b" + one of texts + r"\b", q) finds a match
SearchWord(q, texts) ==
    \E i \in 1..Len(q) : \E txt \in texts :
        /\ StartsAt(q, i, txt)
        /\ Boundary(q, i)
        /\ Boundary(q, i + Len(txt))

\* prefix `pre` matches at position i, a character of `class` right after it
MatchesAt(q, i, pre, class) ==
    /\ StartsAt(q, i, pre)
    /\ i + Len(pre) <= Len(q)
    /\ Char(q, i + Len(pre)) \in class

\* where one of `prefixes` matches so
MatchStarts(q, prefixes, class) ==
    {i \in 1..Len(q) : \E pre \in prefixes : MatchesAt(q, i, pre, class)}

\* the position right after the prefix that matches at i
GroupAt(q, prefixes, class, i) ==
    i + Len(CHOOSE pre \in prefixes : MatchesAt(q, i, pre, class))

\* re.search takes the leftmost match
GroupAmong(q, prefixes, class, starts) ==
    IF starts = {} THEN 0
    ELSE GroupAt(q, prefixes, class, CHOOSE j \in starts : \A k \in starts : j <= k)

\* the position of the group of the match re.search finds (0: no match)
GroupStart(q, prefixes, class) ==
    GroupAmong(q, prefixes, class, MatchStarts(q, prefixes, class))

RECURSIVE DigitRun(_, _)
\* (\d+) from position i on: as many digits as there are
DigitRun(q, i) ==
    IF i <= Len(q) /\ Char(q, i) \in DigitSet
    THEN Char(q, i) \o DigitRun(q, i + 1) ELSE ""

Max(a, b) == IF a >= b THEN a ELSE b

\* dict.get(key, default)
Get(dict, key, default) == IF Has(dict, key) THEN dict[key] ELSE default

-----------------------------------------------------------------------------
(* parse_nl_query, one operator for each of its steps; g is the position of  *)
(* the group of the step's match, 0 when there is none                      *)

\* single-word / one word
RuleWordCount(q, d) ==
    IF \/ SearchWord(q, {w \o sep \o "word" : w \in {"single", "one"}, sep \in {"", " ", "-"}})
       \/ SearchWord(q, {"on" \o e \o sep \o "word" : e \in {"", "e"}, sep \in {"-", " "}})
    THEN Put(d, "word_count", 1) ELSE d

\* palindrome mentions
RulePalindrome(q, d) ==
    IF Contains(q, "palindrom") THEN Put(d, "is_palindrome", TRUE) ELSE d

\* a variant that takes "longer than N" for "at least N"
SetMinAt(q, d, g) ==
    IF g # 0 THEN Put(d, "min_length", ParseInt(DigitRun(q, g))) ELSE d

SetMinAbove(q, d, g) ==
    IF g # 0 THEN Put(d, "min_length", ParseInt(DigitRun(q, g)) + 1) ELSE d

\* "longer than N" -> min_length = N + 1
RuleLongerThan(q, d) ==
    SetMinAbove(q, d, GroupStart(q, {"longer than "}, DigitSet))

SetMin(q, d, g) ==
    IF g # 0 THEN Put(d, "min_length", ParseInt(DigitRun(q, g))) ELSE d

\* "at least N" -> min_length = N
RuleAtLeast(q, d) ==
    SetMin(q, d, GroupStart(q, {"at least ", ">= ", "greater than or equal to "}, DigitSet))

SetMaxBelow(q, d, g) ==
    IF g # 0 THEN Put(d, "max_length", Max(0, ParseInt(DigitRun(q, g)) - 1)) ELSE d

\* "shorter than N" -> max_length = N - 1
RuleShorterThan(q, d) ==
    SetMaxBelow(q, d, GroupStart(q, {"shorter than "}, DigitSet))

SetLetter(q, d, g) ==
    IF g # 0 THEN Put(d, "contains_character", Char(q, g)) ELSE d

\* "containing the letter z", "contain the letter z"
RuleContainsLetter(q, d) ==
    SetLetter(q, d,
        GroupStart(q, {"contain" \o x \o " " \o y \o "letter " :
                           x \in {"ing", "s", ""}, y \in {"the ", ""}},
                   LowerSet))

SetLetterIfUnset(q, d, g) ==
    IF g # 0 /\ ~ Has(d, "contains_character")
    THEN Put(d, "contains_character", Char(q, g)) ELSE d

\* "containing z"
RuleContaining(q, d) ==
    SetLetterIfUnset(q, d, GroupStart(q, {"containing "}, LowerSet))

\* "first vowel": the letter a, and a palindrome unless that is set already
RuleFirstVowel(q, d) ==
    IF Contains(q, "first vowel")
    THEN Put(Put(d, "contains_character", "a"),
             "is_palindrome", Get(d, "is_palindrome", TRUE))
    ELSE d

\* "first vowel" without palindrome
RuleFirstVowelOnly(q, d) ==
    IF Contains(q, "first vowel") /\ ~ Has(d, "is_palindrome")
    THEN Put(d, "contains_character", Get(d, "contains_character", "a"))
    ELSE d

\* parse_nl_query from line 213 on, q being the lower-cased, stripped text
ParseLowered(q) ==
    RuleFirstVowelOnly(q,
    RuleFirstVowel(q,
    RuleContaining(q,
    RuleContainsLetter(q,
    RuleShorterThan(q,
    RuleAtLeast(q,
    RuleLongerThan(q,
    RulePalindrome(q,
    RuleWordCount(q, << >>)))))))))

parse_nl_query(text) == ParseLowered(Strip(Lower(text)))

\* what filter_by_nl returns
NlBody(results, query, d) ==
    [ data              |-> results,
      count             |-> Len(results),
      interpreted_query |-> [original |-> query, parsed_filters |-> d] ]

\* a variant without the check for conflicting lengths
FilterParsedUnchecked(st, query, d) ==
    IF DOMAIN d = {}
    THEN [ resp  |-> HTTPException(400, "Unable to parse natural language query"),
           store |-> st ]
    ELSE [ resp  |-> [status |-> 200, body |-> NlBody(Matching(st, d), query, d)],
           store |-> st ]

\* filter_by_nl from line 267 on, d being its local `parsed`
FilterParsed(st, query, d) ==
    IF query = ""
    THEN [ resp  |-> HTTPException(400, "query parameter is required"),
           store |-> st ]
    ELSE IF DOMAIN d = {}
    THEN [ resp  |-> HTTPException(400, "Unable to parse natural language query"),
           store |-> st ]
    ELSE IF /\ Has(d, "min_length") /\ Has(d, "max_length")
            /\ d["min_length"] > d["max_length"]
    THEN [ resp  |-> HTTPException(422, "Parsed filters conflict (min_length > max_length)"),
           store |-> st ]
    ELSE IF Has(d, "contains_character") /\ Len(d["contains_character"]) # 1
    THEN [ resp  |-> HTTPException(422, "Parsed contains_character invalid"),
           store |-> st ]
    ELSE [ resp  |-> [status |-> 200, body |-> NlBody(Matching(st, d), query, d)],
           store |-> st ]

\* GET /strings/filter-by-natural-language
filter_by_nl(st, query) == FilterParsed(st, query, parse_nl_query(query))

-----------------------------------------------------------------------------
(* The router: the routes in the order the decorators register them; a     *)
(* request goes to the first route whose path and method match it.         *)

Routes ==
    << [method |-> "POST",   path |-> <<"strings">>,                   endpoint |-> "create_string"],
       [method |-> "GET",    path |-> <<"strings", "{string_value}">>, endpoint |-> "get_string"],
       [method |-> "GET",    path |-> <<"strings">>,                   endpoint |-> "list_strings"],
       [method |-> "GET",    path |-> <<"strings", "filter-by-natural-language">>,
                                                                       endpoint |-> "filter_by_nl"],
       [method |-> "DELETE", path |-> <<"strings", "{string_value}">>, endpoint |-> "delete_string"] >>

\* a path parameter takes one whole, non-empty segment
RouteMatches(route, method, path) ==
    /\ route.method = method
    /\ Len(route.path) = Len(path)
    /\ \A i \in 1..Len(path) :
          \/ route.path[i] = path[i]
          \/ route.path[i] = "{string_value}" /\ path[i] # ""

FirstOf(hits) ==
    IF hits = {} THEN "none"
    ELSE Routes[CHOOSE i \in hits : \A j \in hits : i <= j].endpoint

\* the endpoint of the first route that matches
Endpoint(method, path) ==
    FirstOf({i \in 1..Len(Routes) : RouteMatches(Routes[i], method, path)})

\* endpoint ep is called with what the request carries for it: the response,
\* and the table it leaves
Call(ep, st, now, request) ==
    CASE ep = "create_string" -> create_string(st, now, request.body.value)
      [] ep = "get_string"    -> get_string(st, request.path[2])
      [] ep = "list_strings"  -> list_strings(st, request.query)
      [] ep = "filter_by_nl"  -> filter_by_nl(st, request.query["query"])
      [] ep = "delete_string" -> delete_string(st, request.path[2])
      [] OTHER -> [resp |-> HTTPException(404, "Not Found"), store |-> st]

-----------------------------------------------------------------------------
(* The requests of the model *)

\* the strings clients create, look up and delete
StoreValues == {"", "a", " a", "A b", "filter-by-natural-language"}

\* those a path can carry as its second segment
PathValues == StoreValues \ {""}

\* the texts clients send as ?query=
ServiceQueries ==
    {"palindromic strings", "strings longer than 5 and shorter than 3", "hello"}

\* the query parameters clients send to GET /strings, FastAPI having parsed
\* them: a parameter that is not sent (None) is a key the dict does not have
ListQueries ==
    << << >>,
       [is_palindrome |-> TRUE],
       [is_palindrome |-> FALSE],
       [min_length |-> 0],
       [min_length |-> 2],
       [max_length |-> 0],
       [max_length |-> 2],
       [min_length |-> 1, max_length |-> 1],
       [min_length |-> 2, max_length |-> 2],
       [min_length |-> 3, max_length |-> 3],
       [min_length |-> 1, max_length |-> 3],
       [min_length |-> 2, max_length |-> 1],
       [min_length |-> -1],
       [max_length |-> -1],
       [min_length |-> -1, max_length |-> -2],
       [word_count |-> 0],
       [word_count |-> 1],
       [word_count |-> 2],
       [word_count |-> -1],
       [contains_character |-> "a"],
       [contains_character |-> "A"],
       [contains_character |-> "B"],
       [contains_character |-> " "],
       [contains_character |-> "ab"],
       [contains_character |-> ""],
       [is_palindrome |-> TRUE, contains_character |-> "A"],
       [is_palindrome |-> FALSE, word_count |-> 2],
       [min_length |-> 2, word_count |-> 1, contains_character |-> "a"],
       [is_palindrome |-> TRUE, min_length |-> 1, max_length |-> 2,
        word_count |-> 1, contains_character |-> "A"],
       [is_palindrome |-> FALSE, min_length |-> 3, max_length |-> 30,
        word_count |-> 1, contains_character |-> "-"] >>

\* dict without `key`
Without(dict, key) == [k \in DOMAIN dict \ {key} |-> dict[k]]

\* endpoint ep has answered the request with r
Answer(request, ep, r) ==
    /\ req' = request
    /\ endpoint' = ep
    /\ resp' = r.resp
    /\ store' = r.store
    /\ issued' = IF ep = "create_string" /\ r.resp.status = 201
                     THEN Put(issued, request.body.value, r.resp.body)
                 ELSE IF ep = "delete_string" /\ r.resp.status = 204
                     THEN Without(issued, request.path[2])
                 ELSE issued

Routed(request, ep) == Answer(request, ep, Call(ep, store, clock, request))

\* the server serves one request
Http(request) == Routed(request, Endpoint(request.method, request.path))

PostStrings(value) ==
    /\ clock < MaxClock
    /\ clock' = clock + 1
    /\ Http([method |-> "POST", path |-> <<"strings">>, body |-> [value |-> value]])
    /\ UNCHANGED <<parsed, pureVars, raceVars>>

GetStringsValue(value) ==
    /\ Http([method |-> "GET", path |-> <<"strings", value>>])
    /\ UNCHANGED <<clock, parsed, pureVars, raceVars>>

DeleteStringsValue(value) ==
    /\ Http([method |-> "DELETE", path |-> <<"strings", value>>])
    /\ UNCHANGED <<clock, parsed, pureVars, raceVars>>

GetStrings(params) ==
    /\ Http([method |-> "GET", path |-> <<"strings">>, query |-> params])
    /\ UNCHANGED <<clock, parsed, pureVars, raceVars>>

GetStringsFilterByNaturalLanguage(query) ==
    /\ Http([method |-> "GET", path |-> <<"strings", "filter-by-natural-language">>,
             query |-> [query |-> query]])
    /\ UNCHANGED <<clock, parsed, pureVars, raceVars>>

IdleRace ==
    /\ pc = << >>
    /\ conn = << >>
    /\ outcome = << >>

Init ==
    /\ store = {}
    /\ clock = 0
    /\ req = [method |-> "", path |-> << >>]
    /\ endpoint = ""
    /\ resp = [status |-> 0]
    /\ issued = << >>
    /\ parsed = << >>
    /\ s = ""
    /\ props = analyze_string("")
    /\ IdleRace

Next ==
    \/ \E value \in StoreValues : PostStrings(value)
    \/ \E value \in PathValues : GetStringsValue(value)
    \/ \E value \in PathValues : DeleteStringsValue(value)
    \/ \E i \in DOMAIN ListQueries : GetStrings(ListQueries[i])
    \/ \E query \in ServiceQueries : GetStringsFilterByNaturalLanguage(query)

Spec == Init /\ [][Next]_vars

-----------------------------------------------------------------------------
(* filter_by_nl called directly, as a function: on each table of NLStores,  *)
(* with each text of NLQueries                                              *)

Phrases ==
    {"single word", "palindromic", "longer than 5", "at least 2", "shorter than 3",
     "containing the letter z", "containing b", "FIRST vowel", "strings", "hello"}

RECURSIVE Texts(_)
\* up to n phrases, a space between two
Texts(n) ==
    IF n = 1 THEN Phrases
    ELSE Texts(n - 1) \cup {txt \o " " \o ph : txt \in Texts(n - 1), ph \in Phrases}

Scenarios ==
    {"single word strings", "palindromic strings", "strings longer than 5",
     "strings shorter than 3", "strings containing the letter z",
     "palindromic strings that contain the first vowel"}

NLQueries == Scenarios \cup Texts(MaxPhrases)

NLStores ==
    { {},
      create_string({}, 0, "a").store,
      create_string(create_string({}, 0, "zz").store, 1, "A b").store }

InitNL ==
    /\ store \in NLStores
    /\ clock = 0
    /\ \E query \in NLQueries : req = [call |-> "filter_by_nl", query |-> query]
    /\ endpoint = ""
    /\ resp = [status |-> 0]
    /\ issued = << >>
    /\ parsed = << >>
    /\ s = ""
    /\ props = analyze_string("")
    /\ IdleRace

\* filter_by_nl has run with d for its local `parsed`
Filtered(d, r) ==
    /\ parsed' = d
    /\ resp' = r.resp
    /\ store' = r.store

FilterWith(d) == Filtered(d, FilterParsed(store, req.query, d))

CallFilterByNl ==
    /\ resp.status = 0
    /\ FilterWith(parse_nl_query(req.query))
    /\ endpoint' = "filter_by_nl"
    /\ UNCHANGED <<clock, req, issued, pureVars, raceVars>>

NextNL == CallFilterByNl

SpecNL == InitNL /\ [][NextNL]_vars

-----------------------------------------------------------------------------
(* analyze_string called directly, on one string after the other: each     *)
(* is the one before with a character more, with the case of a character   *)
(* changed, or with a whitespace character more or less                    *)

AnalyzeAlphabet == {"a", "A", "b", " ", "Σ", "σ"}

\* str with the character at position i replaced by c
Replace(str, i, c) == SubSeq(str, 1, i - 1) \o c \o SubSeq(str, i + 1, Len(str))

\* c in the other case
SwapCase(c) == IF UpperChar(c) # c THEN UpperChar(c) ELSE LowerChar(c)

Analyze(str, change) ==
    /\ s' = str
    /\ props' = analyze_string(str)
    /\ req' = [call |-> "analyze_string", change |-> change]
    /\ UNCHANGED <<store, clock, resp, endpoint, issued, parsed, raceVars>>

AnalyzeLonger(c) ==
    /\ Len(s) < MaxLen
    /\ Analyze(s \o c, "append")

AnalyzeCaseChanged(i) ==
    /\ SwapCase(Char(s, i)) # Char(s, i)
    /\ Analyze(Replace(s, i, SwapCase(Char(s, i))), "case")

AnalyzeWhitespaceInserted(i, w) ==
    /\ Len(s) < MaxLen
    /\ Analyze(SubSeq(s, 1, i) \o w \o SubSeq(s, i + 1, Len(s)), "whitespace")

AnalyzeWhitespaceRemoved(i) ==
    /\ Char(s, i) \in Whitespace
    /\ Analyze(Replace(s, i, ""), "whitespace")

InitAnalyze ==
    /\ store = {}
    /\ clock = 0
    /\ req = [call |-> "analyze_string", change |-> "append"]
    /\ endpoint = ""
    /\ resp = [status |-> 0]
    /\ issued = << >>
    /\ parsed = << >>
    /\ s = ""
    /\ props = analyze_string("")
    /\ IdleRace

NextAnalyze ==
    \/ \E c \in AnalyzeAlphabet : AnalyzeLonger(c)
    \/ \E i \in 1..Len(s) : AnalyzeCaseChanged(i)
    \/ \E i \in 0..Len(s), w \in {" ", "\t"} : AnalyzeWhitespaceInserted(i, w)
    \/ \E i \in 1..Len(s) : AnalyzeWhitespaceRemoved(i)

SpecAnalyze == InitAnalyze /\ [][NextAnalyze]_vars

-----------------------------------------------------------------------------
(* Two worker threads serve POST /strings with the same value at once.     *)
(* Each has its own connection; a step is one statement of create_string.  *)
(* SQLite lets one connection write at a time: a second INSERT waits for   *)
(* the first writer's commit (the busy timeout is taken to be long enough).*)

Workers == {1, 2}

\* the value both requests carry
RaceValue == req.body.value

\* a table without the PRIMARY KEY
NoPrimaryKey(st, row) == FALSE

\* the PRIMARY KEY of table `strings` rejects a row whose id the table holds
PrimaryKeyViolated(st, row) == RowsWithId(st, row.id) # {}

\* another connection holds the write lock: it has inserted and not committed
WriteLocked(w) == \E o \in Workers \ {w} : conn[o].pending

Ended(w, result) ==
    /\ pc' = [pc EXCEPT ![w] = "done"]
    /\ outcome' = [outcome EXCEPT ![w] = result]

\* lines 76 to 86: the analysis, the timestamp, the connection
Begin(w) ==
    /\ pc[w] = "start"
    /\ conn' = [conn EXCEPT ![w] =
                   [row |-> NewRow(RaceValue, analyze_string(RaceValue), clock),
                    pending |-> FALSE]]
    /\ clock' = clock + 1
    /\ pc' = [pc EXCEPT ![w] = "select"]
    /\ UNCHANGED <<store, req, resp, endpoint, issued, parsed, pureVars, outcome>>

\* lines 87 to 89: the existence check
Select(w) ==
    /\ pc[w] = "select"
    /\ IF RowsWithId(store, conn[w].row.id) # {}
       THEN Ended(w, HTTPException(409, "String already exists"))
       ELSE pc' = [pc EXCEPT ![w] = "insert"] /\ outcome' = outcome
    /\ UNCHANGED <<store, clock, req, resp, endpoint, issued, parsed, pureVars, conn>>

\* lines 90 to 93: the INSERT, in a transaction it opens
Insert(w) ==
    /\ pc[w] = "insert"
    /\ ~ WriteLocked(w)
    /\ IF PrimaryKeyViolated(store, conn[w].row)
       THEN /\ Ended(w, [status |-> 500, detail |-> "sqlite3.IntegrityError"])
            /\ conn' = conn
       ELSE /\ pc' = [pc EXCEPT ![w] = "commit"]
            /\ conn' = [conn EXCEPT ![w].pending = TRUE]
            /\ outcome' = outcome
    /\ UNCHANGED <<store, clock, req, resp, endpoint, issued, parsed, pureVars>>

\* lines 94 to 103: the commit, and the 201
Commit(w) ==
    /\ pc[w] = "commit"
    /\ store' = store \cup {conn[w].row}
    /\ conn' = [conn EXCEPT ![w].pending = FALSE]
    /\ Ended(w, [status |-> 201, body |-> RecordOf(conn[w].row)])
    /\ UNCHANGED <<clock, req, resp, endpoint, issued, parsed, pureVars>>

\* the tables the two requests may find: empty, or holding another string
RaceStores(value) ==
    {{}} \cup {create_string({}, 0, other).store : other \in StoreValues \ {value}}

InitRace ==
    /\ \E value \in StoreValues :
          /\ req = [method |-> "POST", path |-> <<"strings">>, body |-> [value |-> value]]
          /\ store \in RaceStores(value)
    /\ clock = 1
    /\ endpoint = "create_string"
    /\ resp = [status |-> 0]
    /\ issued = << >>
    /\ parsed = << >>
    /\ s = ""
    /\ props = analyze_string("")
    /\ pc = [w \in Workers |-> "start"]
    /\ conn = [w \in Workers |-> [row |-> << >>, pending |-> FALSE]]
    /\ outcome = [w \in Workers |-> [status |-> 0]]

NextRace == \E w \in Workers : Begin(w) \/ Select(w) \/ Insert(w) \/ Commit(w)

SpecRace == InitRace /\ [][NextRace]_vars

-----------------------------------------------------------------------------
(* Properties of the service (Spec) *)

Range(seq) == {seq[i] : i \in 1..Len(seq)}

StoredValues(st) == {row.value : row \in st}

IsRequest(r, method, ep) == r.method = method /\ Endpoint(r.method, r.path) = ep

\* C1: a POST /strings of a value that is not stored is answered 201, and a
\* POST of a value created and not deleted since is answered 409 and leaves
\* every row of the table, that of the value included, as it was.
C1_CreateThenConflict ==
    [][ IsRequest(req', "POST", "create_string") /\ clock' # clock =>
            /\ req'.body.value \notin StoredValues(store) =>
                  /\ resp'.status = 201
                  /\ Has(issued', req'.body.value)
            /\ Has(issued, req'.body.value) =>
                  /\ resp'.status = 409
                  /\ store' = store
            /\ Has(issued, req'.body.value) \/ req'.body.value \notin StoredValues(store)
      ]_vars

\* a second create of a stored value has been rejected, a row being stored
C1_Witness ==
    /\ IsRequest(req, "POST", "create_string")
    /\ resp.status = 409
    /\ Has(issued, req.body.value)
    /\ req.body.value \in StoredValues(store)

\* what C2 asks of one row
RowSound(row) ==
    /\ row.id = sha256_hash(row.value)
    /\ json_loads(row.properties) = analyze_string(row.value)

\* C2: in every state every row has id = sha256(utf8(value)), for the value
\* as it was sent, and holds the analysis of that value; and no step changes
\* a row whose id stays in the table: rows are only inserted and removed.
C2_RowsSoundAndImmutable ==
    /\ [](\A row \in store : RowSound(row))
    /\ [][\A row \in store :
              (\E after \in store' : after.id = row.id) => row \in store']_vars

\* two rows are stored, one of a value with leading whitespace
C2_Witness ==
    /\ Cardinality(store) = 2
    /\ " a" \in StoredValues(store)
    /\ \E row \in store : row.created_at = 0

IsNlRequest(r) ==
    /\ r.method = "GET"
    /\ r.path = <<"strings", "filter-by-natural-language">>
    /\ "query" \in DOMAIN r
    /\ "query" \in DOMAIN r.query

\* the text parses to filters filter_by_nl accepts
Accepted(d) ==
    /\ DOMAIN d # {}
    /\ ~ (Has(d, "min_length") /\ Has(d, "max_length") /\ d["min_length"] > d["max_length"])

\* C4: a GET /strings/filter-by-natural-language whose query parses to
\* filters that do not conflict is served by filter_by_nl and answered 200
\* with data, count and interpreted_query, whatever the table holds.
C4_NaturalLanguageRouteServed ==
    IsNlRequest(req) /\ Accepted(parse_nl_query(req.query["query"])) =>
        /\ endpoint = "filter_by_nl"
        /\ resp.status = 200
        /\ DOMAIN resp.body = {"data", "count", "interpreted_query"}

\* what the filters ask of a record, filter by filter
Satisfies(rec, f) ==
    /\ Has(f, "is_palindrome") => rec.properties.is_palindrome = f["is_palindrome"]
    /\ Has(f, "min_length") => rec.properties.length >= f["min_length"]
    /\ Has(f, "max_length") => rec.properties.length <= f["max_length"]
    /\ Has(f, "word_count") => rec.properties.word_count = f["word_count"]
    /\ Has(f, "contains_character") =>
          {f["contains_character"], Lower(f["contains_character"]),
           Upper(f["contains_character"])}
              \cap DOMAIN rec.properties.character_frequency_map # {}

\* C5: the records a GET /strings with valid filters returns are among those
\* it returns without filters, each satisfies every filter sent, and with
\* min_length = max_length = L alone they are the stored records of length L.
C5_ListFilters ==
    IsRequest(req, "GET", "list_strings") /\ resp.status = 200 =>
        /\ Range(resp.body.data) \subseteq Range(list_strings(store, << >>).resp.body.data)
        /\ \A rec \in Range(resp.body.data) : Satisfies(rec, req.query)
        /\ resp.body.count = Len(resp.body.data)
        /\ (/\ DOMAIN req.query = {"min_length", "max_length"}
            /\ req.query["min_length"] = req.query["max_length"]) =>
              Range(resp.body.data) =
                  {RecordOf(row) : row \in {x \in store : Len(x.value) = req.query["min_length"]}}

\* a list with min_length = max_length = 2 has returned one record of two
C5_Witness ==
    /\ IsRequest(req, "GET", "list_strings")
    /\ resp.status = 200
    /\ req.query = [min_length |-> 2, max_length |-> 2]
    /\ Len(resp.body.data) = 1
    /\ Cardinality(store) = 2

-----------------------------------------------------------------------------
(* Properties of the interpreter and of filter_by_nl (SpecNL) *)

\* filter_by_nl has answered
NlAnswered == endpoint = "filter_by_nl" /\ resp.status # 0

\* the filter-set listed for each scenario
Expected(text) ==
    CASE text = "single word strings"     -> [word_count |-> 1]
      [] text = "palindromic strings"     -> [is_palindrome |-> TRUE]
      [] text = "strings longer than 5"   -> [min_length |-> 6]
      [] text = "strings shorter than 3"  -> [max_length |-> 2]
      [] text = "strings containing the letter z" -> [contains_character |-> "z"]
      [] text = "palindromic strings that contain the first vowel" ->
             [is_palindrome |-> TRUE, contains_character |-> "a"]

\* C7: parse_nl_query returns exactly the listed filter-set for each of the
\* six scenarios; a text containing "first vowel", in any case, yields
\* contains_character "a" and is_palindrome true; and the rules apply in
\* the listed order: "at least N" decides min_length over "longer than N",
\* "the letter X" decides contains_character over "containing X".
C7_ParseScenarios ==
    NlAnswered =>
        /\ parsed = parse_nl_query(req.query)
        /\ req.query \in Scenarios => parsed = Expected(req.query)
        /\ Contains(Lower(req.query), "first vowel") =>
              /\ Has(parsed, "contains_character") /\ parsed["contains_character"] = "a"
              /\ Has(parsed, "is_palindrome") /\ parsed["is_palindrome"] = TRUE
        /\ Contains(req.query, "at least 2") =>
              Has(parsed, "min_length") /\ parsed["min_length"] = 2
        /\ Contains(req.query, "longer than 5") /\ ~ Contains(req.query, "at least 2") =>
              Has(parsed, "min_length") /\ parsed["min_length"] = 6
        /\ Contains(req.query, "the letter z") /\ ~ Contains(Lower(req.query), "first vowel") =>
              Has(parsed, "contains_character") /\ parsed["contains_character"] = "z"

\* "first vowel" has replaced the letter an earlier rule had set
C7_Witness ==
    /\ NlAnswered
    /\ req.query = "containing the letter z FIRST vowel"
    /\ parsed = [contains_character |-> "a", is_palindrome |-> TRUE]

\* the filter-set asks for a length no string has
Conflicting(d) ==
    /\ Has(d, "min_length")
    /\ Has(d, "max_length")
    /\ d["min_length"] > d["max_length"]

\* the status the classification gives a filter-set
Classified(d) ==
    IF DOMAIN d = {} THEN 400
    ELSE IF Conflicting(d) THEN 422
    ELSE IF Has(d, "contains_character") /\ Len(d["contains_character"]) # 1 THEN 422
    ELSE 200

\* C8: filter_by_nl answers 400 to a text that parses to no filter, 422 to
\* one whose filters conflict (as "longer than 5" with "shorter than 3") or
\* whose contains_character is not one character, and 200 otherwise; only a
\* 200 carries records, and no call changes the table.
C8_NlClassification ==
    /\ [](NlAnswered =>
            /\ resp.status = Classified(parsed)
            /\ (/\ Contains(req.query, "longer than 5")
                /\ Contains(req.query, "shorter than 3")
                /\ ~ Contains(req.query, "at least 2")) => resp.status = 422
            /\ resp.status \in {400, 422} => ~ Has(resp, "body")
            /\ resp.status = 200 =>
                  /\ \A rec \in Range(resp.body.data) :
                        /\ rec \in {RecordOf(row) : row \in store}
                        /\ Satisfies(rec, parsed)
                  /\ resp.body.interpreted_query =
                        [original |-> req.query, parsed_filters |-> parsed])
    /\ [][endpoint' = "filter_by_nl" => store' = store]_vars

\* conflicting lengths have been rejected, rows being stored
C8_Witness ==
    /\ NlAnswered
    /\ req.query = "longer than 5 shorter than 3"
    /\ resp.status = 422
    /\ store # {}

-----------------------------------------------------------------------------
(* Properties of analyze_string (SpecAnalyze) *)

\* C9: is_palindrome is true exactly when the string without its whitespace,
\* lower-cased, is its own reverse; and neither a change of the case of a
\* character nor a whitespace character more or less changes it.
C9_PalindromeInvariance ==
    /\ [](props.is_palindrome =
            (Lower(RemoveWhitespace(s)) = Reverse(Lower(RemoveWhitespace(s)))))
    /\ [][req'.change \in {"case", "whitespace"} =>
             props'.is_palindrome = props.is_palindrome]_vars

-----------------------------------------------------------------------------
(* Properties of two concurrent creates (SpecRace) *)

\* the rows of the value both requests carry
RaceRows == RowsWithId(store, sha256_hash(RaceValue))

Created == {w \in Workers : outcome[w].status = 201}

\* C10: under every interleaving of the two requests the table never holds
\* two rows of the value nor an unsound row, the other rows stay as they
\* were, at most one request is answered 201, and when both have ended the
\* table holds one row of the value, one request has had it in its 201 and
\* the other has failed with 409 or with the error of the PRIMARY KEY.
C10_ConcurrentCreate ==
    /\ Cardinality(RaceRows) <= 1
    /\ Cardinality(Created) <= 1
    /\ \A row \in store : RowSound(row)
    /\ store \ RaceRows \in RaceStores(RaceValue)
    /\ \A w \in Created : RaceRows = {r \in store : RecordOf(r) = outcome[w].body}
    /\ (\A w \in Workers : pc[w] = "done") =>
          /\ Cardinality(RaceRows) = 1
          /\ Cardinality(Created) = 1
          /\ \A w \in Workers \ Created :
                \/ outcome[w] = HTTPException(409, "String already exists")
                \/ outcome[w] = [status |-> 500, detail |-> "sqlite3.IntegrityError"]

\* both requests have passed the existence check, and the PRIMARY KEY has
\* rejected the second INSERT
C10_Witness ==
    /\ \A w \in Workers : pc[w] = "done"
    /\ \E w \in Workers : outcome[w].status = 500
    /\ Cardinality(store) = 2

=============================================================================
